---- MODULE Spec2Model ----
(***************************************************************************)
(* Program transformations of the nickel interpreter                       *)
(* (src/src/transformations.rs): the share normal form rewriter, the       *)
(* import rewriter, the transform driver with its stack of pending         *)
(* imports, the fresh variable counter and closurize.                      *)
(***************************************************************************)
EXTENDS Integers, Sequences, FiniteSets, TLC

VARIABLES
    counter,    \* FreshVarCounter: the next value next() hands out
    issued,     \* history: the identifiers fresh_var has returned, in order
    pc,         \* position of the running operation
    sIn,        \* share_normal_form::transform_one: its argument rt
    sOrd,       \* the iteration order the hash map of a record had
    sOut,       \* share_normal_form::transform_one: its result
    sC0,        \* the counter when transform_one was called
    sAgain,     \* TRUE when sIn is the result of the call before
    files,      \* the file system: the parsed term of the file at each path
    root,       \* transform: its argument rt
    seen,       \* resolver: the file identifiers it answers 'from cache' for
    cache,      \* resolver: the term insert stored under each file identifier
    stack,      \* transform: the stack of pending imported terms
    result,     \* transform: the result of the root pass
    ret,        \* what transform returned
    log,        \* history: the resolve and insert calls and the passes of this call
    calls,      \* history: the transform calls started
    faults,     \* history: the resolver answers since the start of the process
                \* that were not the standard ones
    env,        \* closurize: the environment env the closure is put in
    cArg,       \* closurize: self and with_env
    cOut,       \* closurize: what it returned
    env0,       \* history: env when closurize was called
    ops,        \* history: the rewriter and closurize calls the program made
                \* outside transform
    iIn,        \* import_resolution::transform_one: its argument rt
    iOut,       \* import_resolution::transform_one: its result
    iAgain      \* import_resolution::transform_one: its result on the term of
                \* iOut

vars == <<counter, issued, pc, sIn, sOrd, sOut, sC0, sAgain, files, root, seen,
          cache, stack, result, ret, log, calls, faults, env, cArg, cOut, env0,
          ops, iIn, iOut, iAgain>>

importVars == <<iIn, iOut, iAgain>>

closVars == <<env, cArg, cOut, env0>>

shareVars == <<sIn, sOrd, sOut, sC0, sAgain>>
driverVars == <<files, root, seen, cache, stack, result, ret, log, calls, faults>>

(***************************************************************************)
(* Bounds of the model.                                                    *)
(***************************************************************************)
MaxLen == 2         \* elements of a list given to the sharing rewriter
MaxCounter == 20    \* no operation starts with the counter at or above this
MaxEffort == 3      \* transform calls of a process, plus the answers its
                    \* resolver gave that are not the standard ones
MaxOps == 2         \* rewriter and closurize calls outside transform

(***************************************************************************)
(* Identifiers: Ident(String).  A string is the sequence of its            *)
(* characters.                                                             *)
(***************************************************************************)
DigitChars == <<"0", "1", "2", "3", "4", "5", "6", "7", "8", "9">>

RECURSIVE Decimal(_)
\* format!("{}", n) for an unsigned n
Decimal(n) ==
    IF n < 10 THEN <<DigitChars[n + 1]>>
    ELSE Decimal(n \div 10) \o <<DigitChars[(n % 10) + 1]>>

Sigil == "%"

\* The identifier fresh_var() returns when FreshVarCounter::next() returns n.
FreshIdent(n) == <<Sigil>> \o Decimal(n)

\* fresh_var() were the counter not advanced.
fresh_var_NoAdvance(fs) ==
    [id |-> FreshIdent(fs.c),
     fs |-> [c |-> fs.c, ids |-> Append(fs.ids, FreshIdent(fs.c))]]

\* The state of the fresh-name source: c the counter, ids the identifiers
\* handed out so far.
\* fresh_var(): the identifier, and the source with its counter advanced.
fresh_var(fs) ==
    [id |-> FreshIdent(fs.c),
     fs |-> [c |-> fs.c + 1, ids |-> Append(fs.ids, FreshIdent(fs.c))]]

IdA == <<"a">>
IdB == <<"b">>
IdX == <<"x">>
NoIdent == <<>>

\* The field names of the records of the model, in the canonical order a
\* record's fields are written down in.
FieldUniverse == <<IdA, IdB>>

(***************************************************************************)
(* Terms: RichTerm { term, pos }.  One record shape for every variant of   *)
(* Term: k the variant, v a number, boolean or file identifier payload,    *)
(* s a string or path payload, ty the type of a ContractWithDefault, id    *)
(* the identifier of Var, Fun, Let, names the keys of a Record (its        *)
(* values are kids, aligned), kids the subterms.                           *)
(***************************************************************************)
NoPos == <<>>                 \* pos: None
SomePos(n) == <<n>>           \* pos: Some(span)

MkTerm(k, pos, v, s, ty, id, names, kids) ==
    [k |-> k, pos |-> pos, v |-> v, s |-> s, ty |-> ty, id |-> id,
     names |-> names, kids |-> kids]

Bool(b, pos) == MkTerm("Bool", pos, b, "", 0, NoIdent, <<>>, <<>>)
Num(n, pos) == MkTerm("Num", pos, n, "", 0, NoIdent, <<>>, <<>>)
Str(s, pos) == MkTerm("Str", pos, 0, s, 0, NoIdent, <<>>, <<>>)
Lbl(l, pos) == MkTerm("Lbl", pos, l, "", 0, NoIdent, <<>>, <<>>)
Sym(n, pos) == MkTerm("Sym", pos, n, "", 0, NoIdent, <<>>, <<>>)
Enum(id, pos) == MkTerm("Enum", pos, 0, "", 0, id, <<>>, <<>>)
Var(id, pos) == MkTerm("Var", pos, 0, "", 0, id, <<>>, <<>>)
Fun(id, t, pos) == MkTerm("Fun", pos, 0, "", 0, id, <<>>, <<t>>)
Let(id, t1, t2, pos) == MkTerm("Let", pos, 0, "", 0, id, <<>>, <<t1, t2>>)
App(t1, t2, pos) == MkTerm("App", pos, 0, "", 0, NoIdent, <<>>, <<t1, t2>>)
Record(names, kids, pos) == MkTerm("Record", pos, 0, "", 0, NoIdent, names, kids)
List(ts, pos) == MkTerm("List", pos, 0, "", 0, NoIdent, <<>>, ts)
DefaultValue(t, pos) == MkTerm("DefaultValue", pos, 0, "", 0, NoIdent, <<>>, <<t>>)
ContractWithDefault(ty, lbl, t, pos) ==
    MkTerm("ContractWithDefault", pos, lbl, "", ty, NoIdent, <<>>, <<t>>)
Docstring(s, t, pos) == MkTerm("Docstring", pos, 0, s, 0, NoIdent, <<>>, <<t>>)
Import(path, pos) == MkTerm("Import", pos, 0, path, 0, NoIdent, <<>>, <<>>)
ResolvedImport(fid, pos) == MkTerm("ResolvedImport", pos, fid, "", 0, NoIdent, <<>>, <<>>)

\* impl From<Term> for RichTerm: the term with no position.
Into(t) == [t EXCEPT !.pos = NoPos]

NoTerm == MkTerm("None", NoPos, 0, "", 0, NoIdent, <<>>, <<>>)

Range(f) == {f[i] : i \in DOMAIN f}

\* The place of x in the sequence s (x occurs in s).
IndexOf(s, x) == CHOOSE i \in 1..Len(s) : s[i] = x

RECURSIVE SubTerms(_)
\* The nodes of a term.
SubTerms(t) == {t} \cup UNION {SubTerms(t.kids[i]) : i \in DOMAIN t.kids}

(***************************************************************************)
(* share_normal_form                                                       *)
(***************************************************************************)
\* should_share with Term::Var missing from the arm that returns false.
should_share_NoVar(t) ==
    t.k \notin {"Bool", "Num", "Str", "Lbl", "Sym", "Enum", "Fun"}

should_share(t) ==
    t.k \notin {"Bool", "Num", "Str", "Lbl", "Sym", "Var", "Enum", "Fun"}

RECURSIVE ShareEach_SameVar(_, _, _, _, _)
\* ShareEach with the fresh-name source not advanced after a binding.
ShareEach_SameVar(ts, i, fs, out, bindings) ==
    IF i > Len(ts) THEN [ts |-> out, bindings |-> bindings, fs |-> fs]
    ELSE IF should_share(ts[i])
         THEN LET fv == fresh_var(fs)
              IN  ShareEach_SameVar(ts, i + 1,
                            IF i < Len(ts) THEN fs ELSE fv.fs,
                            Append(out, Into(Var(fv.id, NoPos))),
                            Append(bindings, [id |-> fv.id, t |-> ts[i]]))
         ELSE ShareEach_SameVar(ts, i + 1, fs, Append(out, ts[i]), bindings)

RECURSIVE ShareEach(_, _, _, _, _)
\* The closure given to map() in the Record and List arms, over the
\* children ts in iteration order from the i-th on: the children so far
\* (out), the bindings pushed so far, the fresh-name source.
ShareEach(ts, i, fs, out, bindings) ==
    IF i > Len(ts) THEN [ts |-> out, bindings |-> bindings, fs |-> fs]
    ELSE IF should_share(ts[i])
         THEN LET fv == fresh_var(fs)
              IN  ShareEach(ts, i + 1, fv.fs,
                            Append(out, Into(Var(fv.id, NoPos))),
                            Append(bindings, [id |-> fv.id, t |-> ts[i]]))
         ELSE ShareEach(ts, i + 1, fs, Append(out, ts[i]), bindings)

RECURSIVE FoldLets_FirstOutermost(_, _, _)
\* The fold were the first binding the outermost Let.
FoldLets_FirstOutermost(bindings, i, acc) ==
    IF i > Len(bindings) THEN acc
    ELSE Into(Let(bindings[i].id, bindings[i].t,
                  FoldLets_FirstOutermost(bindings, i + 1, acc), NoPos))

RECURSIVE FoldLets(_, _, _)
\* bindings.into_iter().fold(acc, |acc, (id, t)| Term::Let(id, t, acc).into())
\* from the i-th binding on.
FoldLets(bindings, i, acc) ==
    IF i > Len(bindings) THEN acc
    ELSE FoldLets(bindings, i + 1,
                  Into(Let(bindings[i].id, bindings[i].t, acc, NoPos)))

\* The keys of a record in the order its hash map yields them, when ord is
\* the order the hash map puts the field names of the model in.
IterOrder(names, ord) == SelectSeq(ord, LAMBDA n : n \in Range(names))

\* Term::Record(map) arm.
ShareRecord(rt, fs, ord) ==
    LET iter == IterOrder(rt.names, ord)
        its  == [i \in 1..Len(iter) |-> rt.kids[IndexOf(rt.names, iter[i])]]
        r    == ShareEach(its, 1, fs, <<>>, <<>>)
        map  == [j \in 1..Len(rt.names) |-> r.ts[IndexOf(iter, rt.names[j])]]
    IN  [t |-> FoldLets(r.bindings, 1, Record(rt.names, map, rt.pos)),
         fs |-> r.fs]

\* The List arm were the list rebuilt without the position.
ShareList_NoPos(rt, fs) ==
    LET r == ShareEach(rt.kids, 1, fs, <<>>, <<>>)
    IN  [t |-> FoldLets(r.bindings, 1, List(r.ts, NoPos)), fs |-> r.fs]

\* Term::List(ts) arm.
ShareList(rt, fs) ==
    LET r == ShareEach(rt.kids, 1, fs, <<>>, <<>>)
    IN  [t |-> FoldLets(r.bindings, 1, List(r.ts, rt.pos)), fs |-> r.fs]

\* Term::DefaultValue(t), Term::ContractWithDefault(ty, lbl, t) and
\* Term::Docstring(s, t) arms.
ShareWrapper(rt, fs) ==
    IF should_share(rt.kids[1])
    THEN LET fv == fresh_var(fs)
             inner == [rt EXCEPT !.kids = <<Into(Var(fv.id, NoPos))>>]
         IN  [t |-> Into(Let(fv.id, rt.kids[1], inner, NoPos)), fs |-> fv.fs]
    ELSE [t |-> rt, fs |-> fs]

\* share_normal_form::transform_one(rt): the term, and the fresh-name source
\* after the call.
share_transform_one(rt, fs, ord) ==
    CASE rt.k = "Record" -> ShareRecord(rt, fs, ord)
      [] rt.k = "List" -> ShareList(rt, fs)
      [] rt.k \in {"DefaultValue", "ContractWithDefault", "Docstring"} ->
            ShareWrapper(rt, fs)
      [] OTHER -> [t |-> rt, fs |-> fs]

(***************************************************************************)
(* The import resolver (trait ImportResolver of crate::program): paths,    *)
(* the file identifiers it mints, its two answers and its error.           *)
(***************************************************************************)
PathSeq == <<"f1", "f2", "f3">>
Paths == Range(PathSeq)

\* The FileId the resolver mints for a path.
FileIdOf(path) == IndexOf(PathSeq, path)
FileIds == {FileIdOf(p) : p \in Paths}
PathOf(fid) == PathSeq[fid]

\* The root term is no file: the log names its pass by this.
RootId == 0

\* What a resolver may do on one resolve call: "std" answers 'from file'
\* on the first resolve of a file and 'from cache' on every later one,
\* "err" fails, "flip" answers the other way round than "std".
Answers == {"std", "err", "flip"}

ImportError(path, pos) == [path |-> path, pos |-> pos]
NoError == ImportError("", NoPos)

\* An entry of the log: a pass over the root or a file starts, resolve is
\* called from the Import node at pos (the resolver doing ans, with the
\* result res: "file", "cache" or "err"), insert is called.
Event(op, fid, res, pos, ans) ==
    [op |-> op, fid |-> fid, res |-> res, pos |-> pos, ans |-> ans]
PassEvent(fid) == Event("pass", fid, "", NoPos, "")
InsertEvent(fid) == Event("insert", fid, "", NoPos, "")
ResolveEvent(fid, res, pos, ans) == Event("resolve", fid, res, pos, ans)

\* resolver.resolve(&path, &pos) in the pass state st, the resolver doing
\* ans: Ok((FromFile(t), file_id)), Ok((FromCache(), file_id)) or Err.
resolve(path, pos, st, ans, fsys) ==
    LET fid == FileIdOf(path)
        fromFile == (ans = "std") = (fid \notin st.seen)
        n1 == [st EXCEPT !.n = @ + 1,
                         !.faults = @ + (IF ans = "std" THEN 0 ELSE 1)]
    IN  IF ans = "err"
        THEN [ok |-> FALSE, fromFile |-> FALSE, t |-> NoTerm, fid |-> fid,
              err |-> ImportError(path, pos),
              st |-> [n1 EXCEPT !.log = Append(@, ResolveEvent(fid, "err", pos, ans))]]
        ELSE [ok |-> TRUE, fromFile |-> fromFile,
              t |-> IF fromFile THEN fsys[path] ELSE NoTerm, fid |-> fid,
              err |-> NoError,
              st |-> [n1 EXCEPT !.seen = @ \cup {fid},
                                !.log = Append(@, ResolveEvent(fid,
                                   IF fromFile THEN "file" ELSE "cache",
                                   pos, ans))]]

(***************************************************************************)
(* import_resolution                                                       *)
(***************************************************************************)
\* The answer the resolver gives on the next resolve call of a pass whose
\* resolver answers are orc (the standard answer once orc is used up).
NextAnswer(st, orc) == IF st.n < Len(orc) THEN orc[st.n + 1] ELSE "std"

\* import_resolution::transform_one leaving the Import node in place when
\* the resolver answers 'from cache'.
import_transform_one_KeepCached(rt, st, orc, fsys) ==
    IF rt.k = "Import"
    THEN LET r == resolve(rt.s, rt.pos, st, NextAnswer(st, orc), fsys)
         IN  IF ~r.ok
             THEN [ok |-> FALSE, t |-> NoTerm, to_queue |-> <<>>,
                   err |-> r.err, st |-> r.st]
             ELSE [ok |-> TRUE,
                   t |-> IF r.fromFile THEN ResolvedImport(r.fid, rt.pos)
                         ELSE rt,
                   to_queue |-> IF r.fromFile
                                THEN <<[t |-> r.t, file_id |-> r.fid]>>
                                ELSE <<>>,
                   err |-> NoError, st |-> r.st]
    ELSE [ok |-> TRUE, t |-> rt, to_queue |-> <<>>, err |-> NoError, st |-> st]

\* import_resolution::transform_one returning a pair to enqueue whatever
\* the resolver answers.
import_transform_one_AlwaysQueue(rt, st, orc, fsys) ==
    IF rt.k = "Import"
    THEN LET r == resolve(rt.s, rt.pos, st, NextAnswer(st, orc), fsys)
         IN  IF ~r.ok
             THEN [ok |-> FALSE, t |-> NoTerm, to_queue |-> <<>>,
                   err |-> r.err, st |-> r.st]
             ELSE [ok |-> TRUE, t |-> ResolvedImport(r.fid, rt.pos),
                   to_queue |-> <<[t |-> fsys[rt.s], file_id |-> r.fid]>>,
                   err |-> NoError, st |-> r.st]
    ELSE [ok |-> TRUE, t |-> rt, to_queue |-> <<>>, err |-> NoError, st |-> st]

\* import_resolution::transform_one resolving a ResolvedImport node again.
import_transform_one_Revisit(rt, st, orc, fsys) ==
    IF rt.k \in {"Import", "ResolvedImport"}
    THEN LET path == IF rt.k = "Import" THEN rt.s ELSE PathOf(rt.v)
             r == resolve(path, rt.pos, st, NextAnswer(st, orc), fsys)
         IN  IF ~r.ok
             THEN [ok |-> FALSE, t |-> NoTerm, to_queue |-> <<>>,
                   err |-> r.err, st |-> r.st]
             ELSE [ok |-> TRUE, t |-> ResolvedImport(r.fid, rt.pos),
                   to_queue |-> IF r.fromFile
                                THEN <<[t |-> r.t, file_id |-> r.fid]>>
                                ELSE <<>>,
                   err |-> NoError, st |-> r.st]
    ELSE [ok |-> TRUE, t |-> rt, to_queue |-> <<>>, err |-> NoError, st |-> st]

\* import_resolution::transform_one(rt, resolver): Ok((rt, to_queue)) with
\* to_queue the Option as a sequence of at most one pair, or Err(err).
import_transform_one(rt, st, orc, fsys) ==
    IF rt.k = "Import"
    THEN LET r == resolve(rt.s, rt.pos, st, NextAnswer(st, orc), fsys)
         IN  IF ~r.ok
             THEN [ok |-> FALSE, t |-> NoTerm, to_queue |-> <<>>,
                   err |-> r.err, st |-> r.st]
             ELSE [ok |-> TRUE, t |-> ResolvedImport(r.fid, rt.pos),
                   to_queue |-> IF r.fromFile
                                THEN <<[t |-> r.t, file_id |-> r.fid]>>
                                ELSE <<>>,
                   err |-> NoError, st |-> r.st]
    ELSE [ok |-> TRUE, t |-> rt, to_queue |-> <<>>, err |-> NoError, st |-> st]

(***************************************************************************)
(* transform_pass                                                          *)
(***************************************************************************)
\* The i-th of the orders os; the order the field names are written in
\* when os has no i-th.
OrderAt(os, i) == IF i <= Len(os) THEN os[i] ELSE FieldUniverse

\* PassStep pushing the pair to enqueue twice.
PassStep_PushTwice(rt, st, orc, ord, fsys) ==
    LET sh == share_transform_one(rt, st.fs, OrderAt(ord.share, st.rs + 1))
        st1 == [st EXCEPT !.fs = sh.fs,
                          !.rs = @ + (IF rt.k = "Record" THEN 1 ELSE 0)]
        im == import_transform_one(sh.t, st1, orc, fsys)
    IN  IF ~im.ok
        THEN [ok |-> FALSE, t |-> NoTerm, err |-> im.err, st |-> im.st]
        ELSE [ok |-> TRUE, t |-> im.t, err |-> NoError,
              st |-> [im.st EXCEPT !.stack = @ \o im.to_queue \o im.to_queue]]

\* The closure transform_pass gives to traverse: one step of each
\* transformation on the node rt; an import resolved from file is stacked.
\* Every record of the term has hash maps of its own: ord.visit[i] is the
\* order traverse iterates the fields of the i-th record it enters in,
\* ord.share[i] the order the sharing rewriter iterates the i-th record it
\* is given in (the map traverse rebuilt, with an order of its own).
PassStep(rt, st, orc, ord, fsys) ==
    LET sh == share_transform_one(rt, st.fs, OrderAt(ord.share, st.rs + 1))
        st1 == [st EXCEPT !.fs = sh.fs,
                          !.rs = @ + (IF rt.k = "Record" THEN 1 ELSE 0)]
        im == import_transform_one(sh.t, st1, orc, fsys)
    IN  IF ~im.ok
        THEN [ok |-> FALSE, t |-> NoTerm, err |-> im.err, st |-> im.st]
        ELSE [ok |-> TRUE, t |-> im.t, err |-> NoError,
              st |-> [im.st EXCEPT !.stack = @ \o im.to_queue]]

\* The subterms of rt in the order traverse visits them, when ord is the
\* order the hash map of a record yields its fields in to traverse.
VisitOrder(rt, ord) ==
    IF rt.k = "Record"
    THEN LET iter == IterOrder(rt.names, ord)
         IN  [i \in 1..Len(iter) |-> IndexOf(rt.names, iter[i])]
    ELSE [i \in 1..Len(rt.kids) |-> i]

RECURSIVE Traverse(_, _, _, _, _)
RECURSIVE TraverseKids(_, _, _, _, _, _, _)
\* RichTerm::traverse(f, state) with f the closure of transform_pass: the
\* subterms first, each replaced by its result, then f on the node; the
\* first error ends the traversal.
Traverse(rt, st, orc, ord, fsys) ==
    LET st1 == [st EXCEPT !.rv = @ + (IF rt.k = "Record" THEN 1 ELSE 0)]
        ks == TraverseKids(rt, VisitOrder(rt, OrderAt(ord.visit, st.rv + 1)),
                           1, st1, orc, ord, fsys)
    IN  IF ~ks.ok THEN ks
        ELSE PassStep(ks.t, ks.st, orc, ord, fsys)

\* The subterms of rt at the places order[i..], in that order.
TraverseKids(rt, order, i, st, orc, ord, fsys) ==
    IF i > Len(order)
    THEN [ok |-> TRUE, t |-> rt, err |-> NoError, st |-> st]
    ELSE LET r == Traverse(rt.kids[order[i]], st, orc, ord, fsys)
         IN  IF ~r.ok THEN r
             ELSE TraverseKids([rt EXCEPT !.kids[order[i]] = r.t], order,
                               i + 1, r.st, orc, ord, fsys)

\* transform_pass(rt, resolver, stack): Ok(t) or Err(err), and the state
\* the pass leaves.
transform_pass(rt, st, orc, ord, fsys) == Traverse(rt, st, orc, ord, fsys)

(***************************************************************************)
(* transform, in steps: the root pass, one step per iteration of the       *)
(* while loop, and the return.                                             *)
(***************************************************************************)
OkResult(t) == [kind |-> "ok", t |-> t, err |-> NoError]
ErrResult(e) == [kind |-> "err", t |-> NoTerm, err |-> e]
NoResult == [kind |-> "none", t |-> NoTerm, err |-> NoError]

ToResult(r) == IF r.ok THEN OkResult(r.t) ELSE ErrResult(r.err)

NoCache == [fid \in FileIds |-> NoTerm]

\* resolver.insert(file_id, term)
insert(c, file_id, term) == [c EXCEPT ![file_id] = term]

\* The resolver answers of one pass: those after the last one written down
\* are the standard ones.
Oracles ==
    {<<>>} \cup {<<a>> : a \in Answers \ {"std"}}
           \cup {<<a, b>> : a \in Answers, b \in Answers \ {"std"}}

\* The answers of orc that are not the standard one.
NonStd(orc) == Cardinality({i \in DOMAIN orc : orc[i] # "std"})

\* The orders a hash map may yield the field names of the model in.
Orders == {FieldUniverse, <<FieldUniverse[2], FieldUniverse[1]>>}

RECURSIVE NumImports(_)
RECURSIVE NumImportsOf(_, _)
\* The Import nodes of a term.
NumImports(t) ==
    IF t.k = "Import" THEN 1 ELSE NumImportsOf(t.kids, 1)

\* The Import nodes of the terms ts[i..].
NumImportsOf(ts, i) ==
    IF i > Len(ts) THEN 0
    ELSE NumImports(ts[i]) + NumImportsOf(ts, i + 1)

\* The resolver answers a pass over t can use up.
OraclesFor(t) == {o \in Oracles : Len(o) <= NumImports(t)}

\* The hash orders that make a difference to the sharing rewriter on t.
OrdersFor(t) == IF t.k = "Record" THEN Orders ELSE {FieldUniverse}

\* The orders of a pass over a term with n records: for each record the
\* order traverse visits its fields in and the order the sharing rewriter
\* binds them in.
PassOrders(n) ==
    {[visit |-> v, share |-> s] : v \in [1..n -> Orders], s \in [1..n -> Orders]}

\* The orders of a pass over a term with no record.
NoRecordOrder == [visit |-> <<>>, share |-> <<>>]

RECURSIVE NumRecords(_)
RECURSIVE NumRecordsOf(_, _)
\* The Record nodes of a term.
NumRecords(t) ==
    (IF t.k = "Record" THEN 1 ELSE 0) + NumRecordsOf(t.kids, 1)

\* The Record nodes of the terms ts[i..].
NumRecordsOf(ts, i) ==
    IF i > Len(ts) THEN 0
    ELSE NumRecords(ts[i]) + NumRecordsOf(ts, i + 1)

\* The orders of a pass over t: one pair for each of its records.
PassOrdersFor(t) == PassOrders(NumRecords(t))

\* The orders of the pass of the next iteration of the while loop.
DrainOrders ==
    IF stack = <<>> THEN {NoRecordOrder}
    ELSE PassOrdersFor(stack[Len(stack)].t)

\* The state a pass starts in.
PassState(sn, stk, lg, flt) ==
    [fs |-> [c |-> counter, ids |-> issued], seen |-> sn, stack |-> stk,
     log |-> lg, n |-> 0, faults |-> flt, rv |-> 0, rs |-> 0]

\* transform up to the while loop were the result of the root pass followed
\* by `?`: an error of the root pass is returned at once.
TransformRoot_Question(rt, orc, ord) ==
    LET st0 == PassState(seen, <<>>, <<PassEvent(RootId)>>, faults)
        r == transform_pass(rt, st0, orc, ord, files)
    IN  /\ pc = "idle"
        /\ calls + 1 + faults + NonStd(orc) <= MaxEffort
        /\ counter < MaxCounter
        /\ r.st.n >= Len(orc)
        /\ root' = rt
        /\ calls' = calls + 1
        /\ result' = ToResult(r)
        /\ ret' = IF r.ok THEN NoResult ELSE ErrResult(r.err)
        /\ counter' = r.st.fs.c
        /\ issued' = r.st.fs.ids
        /\ seen' = r.st.seen
        /\ stack' = r.st.stack
        /\ log' = r.st.log
        /\ faults' = r.st.faults
        /\ pc' = IF r.ok THEN "drain" ELSE "idle"
        /\ UNCHANGED <<importVars, files, cache, shareVars, closVars, ops>>

\* transform(rt, resolver) up to the while loop: the stack is new and the
\* root pass has run.  The resolver is the one of the call before, whatever
\* that call returned.
TransformRoot(rt, orc, ord) ==
    LET st0 == PassState(seen, <<>>, <<PassEvent(RootId)>>, faults)
        r == transform_pass(rt, st0, orc, ord, files)
    IN  /\ pc = "idle"
        /\ calls + 1 + faults + NonStd(orc) <= MaxEffort
        /\ counter < MaxCounter
        /\ r.st.n >= Len(orc)
        /\ root' = rt
        /\ calls' = calls + 1
        /\ result' = ToResult(r)
        /\ ret' = NoResult
        /\ counter' = r.st.fs.c
        /\ issued' = r.st.fs.ids
        /\ seen' = r.st.seen
        /\ stack' = r.st.stack
        /\ log' = r.st.log
        /\ faults' = r.st.faults
        /\ pc' = "drain"
        /\ UNCHANGED <<importVars, files, cache, shareVars, closVars, ops>>

\* An iteration of the while loop were the pair read and left on the stack.
TransformDrain_NoPop(orc, ord) ==
    LET top == stack[Len(stack)]
        st0 == PassState(seen, stack,
                         Append(log, PassEvent(top.file_id)), faults)
        r == transform_pass(top.t, st0, orc, ord, files)
    IN  /\ pc = "drain"
        /\ stack # <<>>
        /\ calls + faults + NonStd(orc) <= MaxEffort
        /\ counter < MaxCounter
        /\ r.st.n >= Len(orc)
        /\ counter' = r.st.fs.c
        /\ issued' = r.st.fs.ids
        /\ seen' = r.st.seen
        /\ stack' = r.st.stack
        /\ faults' = r.st.faults
        /\ IF r.ok
           THEN /\ cache' = insert(cache, top.file_id, r.t)
                /\ log' = Append(r.st.log, InsertEvent(top.file_id))
                /\ UNCHANGED <<ret, pc>>
           ELSE /\ ret' = ErrResult(r.err)
                /\ log' = r.st.log
                /\ pc' = "idle"
                /\ UNCHANGED cache
        /\ UNCHANGED <<importVars, files, root, result, calls, shareVars, closVars, ops>>

\* An iteration of the while loop were the popped term given to insert.
TransformDrain_InsertRaw(orc, ord) ==
    LET top == stack[Len(stack)]
        st0 == PassState(seen, SubSeq(stack, 1, Len(stack) - 1),
                         Append(log, PassEvent(top.file_id)), faults)
        r == transform_pass(top.t, st0, orc, ord, files)
    IN  /\ pc = "drain"
        /\ stack # <<>>
        /\ calls + faults + NonStd(orc) <= MaxEffort
        /\ counter < MaxCounter
        /\ r.st.n >= Len(orc)
        /\ counter' = r.st.fs.c
        /\ issued' = r.st.fs.ids
        /\ seen' = r.st.seen
        /\ stack' = r.st.stack
        /\ faults' = r.st.faults
        /\ IF r.ok
           THEN /\ cache' = insert(cache, top.file_id, top.t)
                /\ log' = Append(r.st.log, InsertEvent(top.file_id))
                /\ UNCHANGED <<ret, pc>>
           ELSE /\ ret' = ErrResult(r.err)
                /\ log' = r.st.log
                /\ pc' = "idle"
                /\ UNCHANGED cache
        /\ UNCHANGED <<importVars, files, root, result, calls, shareVars, closVars, ops>>

\* An iteration of the while loop were the stack a queue: the pair pushed
\* first is taken.
TransformDrain_Fifo(orc, ord) ==
    LET top == stack[1]
        st0 == PassState(seen, Tail(stack),
                         Append(log, PassEvent(top.file_id)), faults)
        r == transform_pass(top.t, st0, orc, ord, files)
    IN  /\ pc = "drain"
        /\ stack # <<>>
        /\ calls + faults + NonStd(orc) <= MaxEffort
        /\ counter < MaxCounter
        /\ r.st.n >= Len(orc)
        /\ counter' = r.st.fs.c
        /\ issued' = r.st.fs.ids
        /\ seen' = r.st.seen
        /\ stack' = r.st.stack
        /\ faults' = r.st.faults
        /\ IF r.ok
           THEN /\ cache' = insert(cache, top.file_id, r.t)
                /\ log' = Append(r.st.log, InsertEvent(top.file_id))
                /\ UNCHANGED <<ret, pc>>
           ELSE /\ ret' = ErrResult(r.err)
                /\ log' = r.st.log
                /\ pc' = "idle"
                /\ UNCHANGED cache
        /\ UNCHANGED <<importVars, files, root, result, calls, shareVars, closVars, ops>>

\* An iteration of the while loop were the resolver's cache emptied when
\* the pass fails.
TransformDrain_Rollback(orc, ord) ==
    LET top == stack[Len(stack)]
        st0 == PassState(seen, SubSeq(stack, 1, Len(stack) - 1),
                         Append(log, PassEvent(top.file_id)), faults)
        r == transform_pass(top.t, st0, orc, ord, files)
    IN  /\ pc = "drain"
        /\ stack # <<>>
        /\ calls + faults + NonStd(orc) <= MaxEffort
        /\ counter < MaxCounter
        /\ r.st.n >= Len(orc)
        /\ counter' = r.st.fs.c
        /\ issued' = r.st.fs.ids
        /\ seen' = r.st.seen
        /\ stack' = r.st.stack
        /\ faults' = r.st.faults
        /\ IF r.ok
           THEN /\ cache' = insert(cache, top.file_id, r.t)
                /\ log' = Append(r.st.log, InsertEvent(top.file_id))
                /\ UNCHANGED <<ret, pc>>
           ELSE /\ ret' = ErrResult(r.err)
                /\ log' = r.st.log
                /\ pc' = "idle"
                /\ cache' = NoCache
        /\ UNCHANGED <<importVars, files, root, result, calls, shareVars, closVars, ops>>

\* One iteration of the while loop: stack.pop() gave Some((t, file_id)).
TransformDrain(orc, ord) ==
    LET top == stack[Len(stack)]
        st0 == PassState(seen, SubSeq(stack, 1, Len(stack) - 1),
                         Append(log, PassEvent(top.file_id)), faults)
        r == transform_pass(top.t, st0, orc, ord, files)
    IN  /\ pc = "drain"
        /\ stack # <<>>
        /\ calls + faults + NonStd(orc) <= MaxEffort
        /\ counter < MaxCounter
        /\ r.st.n >= Len(orc)
        /\ counter' = r.st.fs.c
        /\ issued' = r.st.fs.ids
        /\ seen' = r.st.seen
        /\ stack' = r.st.stack
        /\ faults' = r.st.faults
        /\ IF r.ok
           THEN /\ cache' = insert(cache, top.file_id, r.t)
                /\ log' = Append(r.st.log, InsertEvent(top.file_id))
                /\ UNCHANGED <<ret, pc>>
           ELSE /\ ret' = ErrResult(r.err)
                /\ log' = r.st.log
                /\ pc' = "idle"
                /\ UNCHANGED cache
        /\ UNCHANGED <<importVars, files, root, result, calls, shareVars, closVars, ops>>

\* stack.pop() gave None: transform returns the result of the root pass.
TransformReturn ==
    /\ pc = "drain"
    /\ stack = <<>>
    /\ ret' = result
    /\ pc' = "idle"
    /\ UNCHANGED <<importVars, counter, issued, files, root, seen, cache, stack, result,
                   log, calls, faults, shareVars, closVars, ops>>

(***************************************************************************)
(* The terms and file systems of the model.                                *)
(***************************************************************************)
\* The file with identifier fid holds no import, or a list of one import;
\* the last file, which no root term imports, imports nothing.
FileTerms(fid) ==
    {Num(fid, SomePos(10 * fid))}
    \cup {List(<<Import(p, SomePos(10 * fid + 1))>>, SomePos(10 * fid)) :
            p \in IF fid = Len(PathSeq) THEN {} ELSE Paths}

FileSystems ==
    {f \in [Paths -> UNION {FileTerms(fid) : fid \in FileIds}] :
        \A p \in Paths : f[p] \in FileTerms(FileIdOf(p))}

Imp(i, pos) == Import(PathSeq[i], SomePos(pos))

RootTerms ==
    {Num(7, SomePos(1)),
     Imp(1, 1),
     List(<<Imp(1, 2), Imp(2, 3)>>, SomePos(1)),
     List(<<Imp(1, 2), Imp(1, 3)>>, SomePos(1)),
     Record(FieldUniverse, <<Imp(1, 2), Imp(2, 3)>>, SomePos(1)),
     Let(IdX, Imp(1, 2), Var(IdX, SomePos(3)), SomePos(1)),
     Fun(IdX, DefaultValue(Imp(1, 3), SomePos(2)), SomePos(1))}

(***************************************************************************)
(* The sharing rewriter called on its own.                                 *)
(***************************************************************************)
P2 == SomePos(2)
OnePlusOne == App(Num(1, P2), Num(1, P2), P2)

\* Subterms the sharing rewriter leaves in place, one of each kind.
AtomKids ==
    {Bool(1, P2), Num(1, P2), Str("s", P2), Lbl(1, P2), Sym(1, P2),
     Var(IdX, P2), Enum(IdX, P2), Fun(IdX, OnePlusOne, P2)}

\* Subterms of the other kinds.
OtherKids ==
    {OnePlusOne, List(<<OnePlusOne>>, P2), Record(<<IdA>>, <<OnePlusOne>>, P2),
     Let(IdX, Num(1, P2), Var(IdX, P2), P2), Import("f1", P2),
     ResolvedImport(1, P2), DefaultValue(Num(1, P2), P2),
     ContractWithDefault(1, 2, Num(1, P2), P2), Docstring("d", Num(1, P2), P2)}

Kids == AtomKids \cup OtherKids

SeqsUpTo(S, n) == UNION {[1..m -> S] : m \in 0..n}

\* The subsequences of the field names of the model.
NameSeqs == {<<>>, <<IdA>>, <<IdB>>, FieldUniverse}

ShareInputs ==
    LET Poss == {NoPos, SomePos(1)}
    IN  Kids
        \cup {List(ts, p) : ts \in SeqsUpTo(Kids, MaxLen), p \in Poss}
        \cup {Record(ns, ts, p) :
                ns \in NameSeqs, ts \in SeqsUpTo(Kids, Len(FieldUniverse)),
                p \in Poss}
        \cup {DefaultValue(t, p) : t \in Kids, p \in Poss}
        \cup {ContractWithDefault(1, 2, t, p) : t \in Kids, p \in Poss}
        \cup {Docstring("d", t, p) : t \in Kids, p \in Poss}

WellFormed(t) == t.k = "Record" => Len(t.names) = Len(t.kids)

\* share_normal_form::transform_one(rt) is called.
ShareCall(rt, ord, again) ==
    LET r == share_transform_one(rt, [c |-> counter, ids |-> issued], ord)
    IN  /\ counter < MaxCounter
        /\ sIn' = rt
        /\ sOrd' = ord
        /\ sOut' = r.t
        /\ sC0' = counter
        /\ sAgain' = again
        /\ counter' = r.fs.c
        /\ issued' = r.fs.ids
        /\ UNCHANGED <<importVars, driverVars, closVars, ops>>

\* The rewriter is called on the term sIn.
ShareFirst ==
    /\ pc = "share"
    /\ \E ord \in OrdersFor(sIn) : ShareCall(sIn, ord, FALSE)
    /\ pc' = "shared"

\* The rewriter is called on the term it returned.
ShareAgain ==
    /\ pc = "shared"
    /\ \E ord \in OrdersFor(sOut) : ShareCall(sOut, ord, TRUE)
    /\ pc' = "reshared"

(***************************************************************************)
(* Closurizable                                                            *)
(***************************************************************************)
\* Environment: a map from identifiers to (closure, IdentKind).
EmptyEnv == [x \in {} |-> 0]

Closure(body, e) == [body |-> body, env |-> e]

\* env.insert(var, (closure, kind))
EnvInsert(e, var, c, kind) ==
    [x \in DOMAIN e \cup {var} |->
        IF x = var THEN [closure |-> c, kind |-> kind] ELSE e[x]]

\* Types: Types(AbsType).  Of AbsType the model has Dyn, Num and
\* Flat(t), the type given by the contract t.
TyDyn == [ty |-> "Dyn", t |-> NoTerm]
TyNum == [ty |-> "Num", t |-> NoTerm]
TyFlat(t) == [ty |-> "Flat", t |-> t]

\* Types::contract(): the contract of a type as a term.
contract(ty) ==
    CASE ty.ty = "Flat" -> ty.t
      [] ty.ty = "Dyn" -> Into(Var(<<"d", "y", "n">>, NoPos))
      [] ty.ty = "Num" -> Into(Var(<<"n", "u", "m">>, NoPos))

\* RichTerm::closurize with the closure's environment taken from env.
closurize_term_TargetEnv(self, e, with_env, fs) ==
    LET fv == fresh_var(fs)
    IN  [out |-> Into(Var(fv.id, NoPos)),
         env |-> EnvInsert(e, fv.id, Closure(self, e), "Record"),
         fs |-> fv.fs]

\* impl Closurizable for RichTerm: closurize(self, env, with_env), with
\* what it returns, env and the fresh-name source after the call.
closurize_term(self, e, with_env, fs) ==
    LET fv == fresh_var(fs)
    IN  [out |-> Into(Var(fv.id, NoPos)),
         env |-> EnvInsert(e, fv.id, Closure(self, with_env), "Record"),
         fs |-> fv.fs]

\* impl Closurizable for Types
closurize_type(self, e, with_env, fs) ==
    LET r == closurize_term(contract(self), e, with_env, fs)
    IN  [out |-> TyFlat(r.out), env |-> r.env, fs |-> r.fs]

NoArg == [form |-> "none", t |-> NoTerm, ty |-> TyDyn, with_env |-> EmptyEnv]
TermArg(t, e) == [form |-> "term", t |-> t, ty |-> TyDyn, with_env |-> e]
TypeArg(ty, e) == [form |-> "type", t |-> NoTerm, ty |-> ty, with_env |-> e]

\* What closurize returned: a term or a type.
TermOut(t) == [form |-> "term", t |-> t, ty |-> TyDyn]
TypeOut(ty) == [form |-> "type", t |-> NoTerm, ty |-> ty]
NoOut == [form |-> "none", t |-> NoTerm, ty |-> TyDyn]

\* closurize(self, env, with_env) is called on the term or the type cArg.
ClosCall ==
    LET fs == [c |-> counter, ids |-> issued]
        r == IF cArg.form = "term"
             THEN closurize_term(cArg.t, env, cArg.with_env, fs)
             ELSE closurize_type(cArg.ty, env, cArg.with_env, fs)
    IN  /\ pc = "clos"
        /\ counter < MaxCounter
        /\ env0' = env
        /\ env' = r.env
        /\ cOut' = IF cArg.form = "term" THEN TermOut(r.out) ELSE TypeOut(r.out)
        /\ counter' = r.fs.c
        /\ issued' = r.fs.ids
        /\ pc' = "closed"
        /\ UNCHANGED <<importVars, cArg, shareVars, driverVars, ops>>

ClosIdle ==
    /\ env = EmptyEnv
    /\ cArg = NoArg
    /\ cOut = NoOut
    /\ env0 = EmptyEnv

\* What import_resolution::transform_one returned: Ok((t, to_queue)) or
\* Err(err).
ImportOut(r) == [ok |-> r.ok, t |-> r.t, to_queue |-> r.to_queue, err |-> r.err]
NoImportOut == [ok |-> FALSE, t |-> NoTerm, to_queue |-> <<>>, err |-> NoError]

ImportIdle ==
    /\ iIn = NoTerm
    /\ iOut = NoImportOut
    /\ iAgain = NoImportOut

ShareIdle ==
    /\ sIn = NoTerm
    /\ sOrd = FieldUniverse
    /\ sOut = NoTerm
    /\ sC0 = 0
    /\ sAgain = FALSE

Init ==
    /\ counter = 0
    /\ issued = <<>>
    /\ pc = "idle"
    /\ ShareIdle
    /\ ClosIdle
    /\ files \in FileSystems
    /\ root = NoTerm
    /\ seen = {}
    /\ cache = NoCache
    /\ stack = <<>>
    /\ result = NoResult
    /\ ret = NoResult
    /\ log = <<>>
    /\ calls = 0
    /\ faults = 0
    /\ ops = 0
    /\ ImportIdle

Next ==
    \/ \E rt \in RootTerms :
          \E orc \in OraclesFor(rt), ord \in PassOrdersFor(rt) :
             TransformRoot(rt, orc, ord)
    \/ \E orc \in Oracles, ord \in DrainOrders : TransformDrain(orc, ord)
    \/ TransformReturn

Spec == Init /\ [][Next]_vars

\* The diamond: f1 and f2 import f3.
Diamond ==
    [p \in Paths |->
        IF p = "f3" THEN Num(3, SomePos(30))
        ELSE List(<<Import("f3", SomePos(10 * FileIdOf(p) + 1))>>,
                  SomePos(10 * FileIdOf(p)))]

\* The identifiers handed out when the counter has reached c.
IssuedUpTo(c) == [i \in 1..c |-> FreshIdent(i - 1)]

\* The driver is not running.
DriverIdle ==
    /\ files = Diamond
    /\ root = NoTerm
    /\ seen = {}
    /\ cache = NoCache
    /\ stack = <<>>
    /\ result = NoResult
    /\ ret = NoResult
    /\ log = <<>>
    /\ calls = 0
    /\ faults = 0

\* The rewriter is about to be called on a term of the model, the counter
\* at the start of the process or where its decimal form gains a digit.
InitShare ==
    /\ counter \in {0, 9}
    /\ issued = IssuedUpTo(counter)
    /\ pc = "share"
    /\ sIn \in {t \in ShareInputs : WellFormed(t)}
    /\ sOrd = FieldUniverse
    /\ sOut = NoTerm
    /\ sC0 = counter
    /\ sAgain = FALSE
    /\ DriverIdle
    /\ ClosIdle
    /\ ops = 0
    /\ ImportIdle

\* Environments of the model.
Env1 == EnvInsert(EmptyEnv, IdX, Closure(Num(1, P2), EmptyEnv), "Let")
Env2 == EnvInsert(EmptyEnv, IdA, Closure(Var(IdX, P2), Env1), "Record")

\* The environments closurize may be given as env when the counter is at c:
\* with no binding, with a binding of the program, and with the binding an
\* earlier closurize made.
TargetEnvs(c) ==
    {EmptyEnv, Env1}
    \cup (IF c = 0 THEN {}
          ELSE {EnvInsert(Env1, FreshIdent(c - 1),
                          Closure(OnePlusOne, Env1), "Record")})

ClosArgs ==
    LET Envs == {EmptyEnv, Env1, Env2}
    IN  {TermArg(t, e) : t \in Kids, e \in Envs}
        \cup {TypeArg(ty, e) :
                ty \in {TyDyn, TyNum, TyFlat(OnePlusOne), TyFlat(Var(IdX, P2))},
                e \in Envs}

InitClos ==
    /\ counter \in {0, 9}
    /\ issued = IssuedUpTo(counter)
    /\ pc = "clos"
    /\ ShareIdle
    /\ DriverIdle
    /\ env \in TargetEnvs(counter)
    /\ cArg \in ClosArgs
    /\ cOut = NoOut
    /\ env0 = env
    /\ ops = 0
    /\ ImportIdle

NextClos == ClosCall

SpecClos == InitClos /\ [][NextClos]_vars

NextShare == ShareFirst \/ ShareAgain

SpecShare == InitShare /\ [][NextShare]_vars

\* A program that calls the rewriter, closurize and transform one after the
\* other, in any order.

\* The program calls closurize next.
StartClos ==
    /\ pc = "idle"
    /\ ops < MaxOps
    /\ cArg' \in {TermArg(OnePlusOne, Env1), TypeArg(TyNum, EmptyEnv)}
    /\ env0' = env
    /\ cOut' = NoOut
    /\ ops' = ops + 1
    /\ pc' = "clos"
    /\ UNCHANGED <<importVars, counter, issued, env, shareVars, driverVars>>

\* The program calls the rewriter next.
StartShare ==
    /\ pc = "idle"
    /\ ops < MaxOps
    /\ sIn' \in {List(<<OnePlusOne, OnePlusOne>>, P2),
                 Docstring("d", OnePlusOne, NoPos)}
    /\ sOut' = NoTerm
    /\ sC0' = counter
    /\ sAgain' = FALSE
    /\ ops' = ops + 1
    /\ pc' = "share"
    /\ UNCHANGED <<importVars, counter, issued, sOrd, closVars, driverVars>>

\* The call of the rewriter or of closurize has returned.
Finish ==
    /\ pc \in {"closed", "shared"}
    /\ pc' = "idle"
    /\ UNCHANGED <<importVars, counter, issued, shareVars, closVars, driverVars, ops>>

\* The program has handed out identifiers before: the decimal form of the
\* counter is about to gain a digit.
InitProc ==
    /\ counter = 8
    /\ issued = IssuedUpTo(counter)
    /\ pc = "idle"
    /\ ShareIdle
    /\ ClosIdle
    /\ DriverIdle
    /\ ops = 0
    /\ ImportIdle

\* The root terms the program gives transform, and what the resolver does
\* during a pass: it gives the standard answers, or its first answer is a
\* failure.
ProcRoots ==
    {List(<<Imp(1, 2), Imp(2, 3)>>, SomePos(1)), Imp(3, 1)}

ProcOracles == {<<>>, <<"err">>}

NextProc ==
    \/ StartClos
    \/ ClosCall
    \/ StartShare
    \/ ShareFirst
    \/ Finish
    \/ \E rt \in ProcRoots, orc \in ProcOracles :
          \E ord \in PassOrdersFor(rt) : TransformRoot(rt, orc, ord)
    \/ \E orc \in ProcOracles, ord \in DrainOrders : TransformDrain(orc, ord)
    \/ TransformReturn

SpecProc == InitProc /\ [][NextProc]_vars

(***************************************************************************)
(* The import rewriter called on its own.                                  *)
(***************************************************************************)
\* The nodes the import rewriter is given.
ImportInputs ==
    {Import(p, pos) : p \in Paths, pos \in {NoPos, P2}}
    \cup {ResolvedImport(fid, pos) : fid \in FileIds, pos \in {NoPos, P2}}
    \cup Kids
    \cup {List(<<Import("f1", P2)>>, P2),
          Let(IdX, Import("f1", P2), Var(IdX, P2), NoPos),
          Record(FieldUniverse, <<Import("f1", P2), Num(1, P2)>>, P2),
          DefaultValue(Import("f2", P2), P2)}

\* import_resolution::transform_one(rt, resolver) is called, the resolver
\* doing ans.
ImportCall(rt, ans) ==
    LET st0 == PassState(seen, <<>>, log, 0)
        r == import_transform_one(rt, st0, <<ans>>, files)
    IN  /\ seen' = r.st.seen
        /\ log' = r.st.log
        /\ stack' = r.st.stack
        /\ IF pc = "import"
           THEN iOut' = ImportOut(r) /\ UNCHANGED iAgain
           ELSE iAgain' = ImportOut(r) /\ UNCHANGED iOut
        /\ UNCHANGED <<iIn, counter, issued, files, root, cache, result, ret,
                       calls, faults, shareVars, closVars, ops>>

\* The rewriter is called on the node iIn.
ImportFirst ==
    /\ pc = "import"
    /\ \E ans \in Answers : ImportCall(iIn, ans)
    /\ pc' = "imported"

\* The rewriter is called on the node it returned.
ImportAgain ==
    /\ pc = "imported"
    /\ iOut.ok
    /\ \E ans \in Answers : ImportCall(iOut.t, ans)
    /\ pc' = "reimported"

InitImport ==
    /\ counter = 0
    /\ issued = <<>>
    /\ pc = "import"
    /\ iIn \in ImportInputs
    /\ iOut = NoImportOut
    /\ iAgain = NoImportOut
    /\ ShareIdle
    /\ ClosIdle
    /\ files = Diamond
    /\ root = NoTerm
    /\ seen \in SUBSET FileIds
    /\ cache = NoCache
    /\ stack = <<>>
    /\ result = NoResult
    /\ ret = NoResult
    /\ log = <<>>
    /\ calls = 0
    /\ faults = 0
    /\ ops = 0

NextImport == ImportFirst \/ ImportAgain

SpecImport == InitImport /\ [][NextImport]_vars

(***************************************************************************)
(* Properties of the sharing rewriter.                                     *)
(***************************************************************************)
\* The kinds the specification calls atomic forms, and variable references.
AtomicKinds == {"Bool", "Num", "Str", "Lbl", "Sym", "Enum", "Fun", "Var"}

\* The kinds of node the sharing rewriter rewrites.
SharingKinds ==
    {"Record", "List", "DefaultValue", "ContractWithDefault", "Docstring"}

\* A record or list all of whose values are variable references or atomic.
AlreadyShared(t) ==
    /\ t.k \in {"Record", "List"}
    /\ \A i \in DOMAIN t.kids : t.kids[i].k \in AtomicKinds

ShareDone == pc \in {"shared", "reshared"}

\* C9: the sharing rewriter returns a record or list whose values are all
\* variable references or atomic forms as it is and takes no fresh
\* identifier, and applied to its own result it returns that result
\* unchanged, again taking no fresh identifier.
C9_ShareIdempotent ==
    ShareDone =>
        /\ AlreadyShared(sIn) => sOut = sIn /\ counter = sC0
        /\ sAgain => sOut = sIn /\ counter = sC0

\* The rewriter has run on a result of its own that binds two children.
C9_Witness ==
    /\ pc = "reshared"
    /\ sAgain
    /\ sIn.k = "Let"
    /\ sIn.kids[2].k = "Let"
    /\ AlreadyShared(sIn.kids[2].kids[2])
    /\ sOut = sIn

RECURSIVE IsLetChain(_, _)
\* t is n Let nodes, each the body of the one before.
IsLetChain(t, n) ==
    n = 0 \/ (t.k = "Let" /\ IsLetChain(t.kids[2], n - 1))

RECURSIVE LetBindings(_, _)
\* The bindings of the n outermost Let nodes of t, the outermost first.
LetBindings(t, n) ==
    IF n = 0 THEN <<>>
    ELSE <<[id |-> t.id, t |-> t.kids[1]]>> \o LetBindings(t.kids[2], n - 1)

RECURSIVE LetBody(_, _)
\* The body of the n-th Let node of t.
LetBody(t, n) == IF n = 0 THEN t ELSE LetBody(t.kids[2], n - 1)

\* The places of the children of t that are to be shared.
ToShare(t) == {i \in DOMAIN t.kids : t.kids[i].k \notin AtomicKinds}

\* out is t with exactly the children at ToShare(t) bound by Let nodes,
\* one each, to identifiers taken from the fresh-name source from c0 on.
SharedForm(t, out, c0, c1) ==
    LET n == Cardinality(ToShare(t))
        bs == LetBindings(out, n)
        core == LetBody(out, n)
    IN  /\ c1 = c0 + n
        /\ IsLetChain(out, n)
        /\ core = [t EXCEPT !.kids = core.kids]
        /\ DOMAIN core.kids = DOMAIN t.kids
        /\ \A i \in DOMAIN t.kids \ ToShare(t) : core.kids[i] = t.kids[i]
        /\ \A i \in ToShare(t) :
              /\ core.kids[i].k = "Var"
              /\ core.kids[i].kids = <<>>
              /\ \E j \in 1..n :
                    /\ bs[j].id = core.kids[i].id
                    /\ bs[j].t = t.kids[i]
        /\ \A j \in 1..n :
              /\ \E m \in c0..(c1 - 1) : bs[j].id = FreshIdent(m)
              /\ \A j2 \in 1..n : bs[j2].id = bs[j].id => j2 = j

\* C10: for a Record, List, DefaultValue, ContractWithDefault or Docstring
\* node the rewriter makes exactly one Let binding per immediate child that
\* is not a boolean, number, string, label, symbol, variable, enum tag or
\* function literal, each binding a distinct fresh identifier to the
\* original child, and puts a variable reference to that identifier in the
\* child's place; the other children stay as they are, and a node of any
\* other kind is returned unchanged.
C10_ShareBindings ==
    (pc = "shared") =>
        IF sIn.k \in SharingKinds
        THEN SharedForm(sIn, sOut, sC0, counter)
        ELSE sOut = sIn /\ counter = sC0

\* A record with two fields to share has been rewritten, the second field
\* of the hash map's order first.
C10_Witness ==
    /\ pc = "shared"
    /\ sIn.k = "Record"
    /\ Cardinality(ToShare(sIn)) = 2
    /\ sOrd # FieldUniverse
    /\ counter = sC0 + 2

(***************************************************************************)
(* Properties of closurize.                                                *)
(***************************************************************************)
\* The term closurize packs: self, or the contract of the type self.
Packed == IF cArg.form = "term" THEN cArg.t ELSE contract(cArg.ty)

\* The term closurize returned, or the term in the flat type it returned.
ReturnedTerm == IF cOut.form = "term" THEN cOut.t ELSE cOut.ty.t

\* C7: closurize adds exactly one binding to env, under an identifier that
\* was not bound and that the fresh-name source made, and changes no other
\* binding; the closure bound has the packed term (self, or the contract of
\* the type self) as body and with_env, not env, as environment; it returns
\* a bare variable reference to the identifier, for a type as a flat type.
C7_Closurize ==
    (pc = "closed") =>
        \E id \in DOMAIN env :
            /\ id \notin DOMAIN env0
            /\ DOMAIN env = DOMAIN env0 \cup {id}
            /\ \A x \in DOMAIN env0 : env[x] = env0[x]
            /\ id = FreshIdent(counter - 1)
            /\ id[1] = Sigil
            /\ env[id].closure.body = Packed
            /\ env[id].closure.env = cArg.with_env
            /\ cOut.form = cArg.form
            /\ ReturnedTerm = Into(Var(id, NoPos))
            /\ cOut.form = "type" => cOut.ty.ty = "Flat"

\* A type has been closurized into an environment that holds bindings,
\* with another environment captured.
C7_Witness ==
    /\ pc = "closed"
    /\ cArg.form = "type"
    /\ cArg.ty.ty = "Flat"
    /\ DOMAIN env0 # {}
    /\ cArg.with_env # env0
    /\ Cardinality(DOMAIN env) = Cardinality(DOMAIN env0) + 1

(***************************************************************************)
(* Properties of transform.                                                *)
(***************************************************************************)
\* transform has returned.
Returned == pc = "idle" /\ ret.kind # "none"

\* The places in the log of the resolve calls that failed.
ErrEvents == {i \in DOMAIN log : log[i].op = "resolve" /\ log[i].res = "err"}

\* The error of the resolve call of the log entry ev.
ErrorOf(ev) == ImportError(PathOf(ev.fid), ev.pos)

FirstErr == CHOOSE i \in ErrEvents : \A j \in ErrEvents : i <= j

\* C1: when transform has returned, it has returned the error of every
\* resolve call of the call that failed (so it has returned no Ok term).
C1_ReturnsThatError ==
    Returned => \A i \in ErrEvents : ret = ErrResult(ErrorOf(log[i]))

\* C6: the first failed resolve call is the last entry of the log (no pass,
\* no resolve and no insert call follows it), and its error is what
\* transform returns.
C6_FirstErrorAborts ==
    ErrEvents # {} =>
        /\ Len(log) = FirstErr
        /\ Returned => ret = ErrResult(ErrorOf(log[FirstErr]))

HasImport(t) == \E u \in SubTerms(t) : u.k = "Import"

\* The (path, position) of the Import nodes of t.
ImportSites(t) == {<<u.s, u.pos>> : u \in {x \in SubTerms(t) : x.k = "Import"}}

\* The (file identifier, position) of the ResolvedImport nodes of t.
ResolvedSites(t) ==
    {<<u.v, u.pos>> : u \in {x \in SubTerms(t) : x.k = "ResolvedImport"}}

\* The files t imports.
ImportFids(t) == {FileIdOf(site[1]) : site \in ImportSites(t)}

\* out has a ResolvedImport node with the resolver's identifier of the
\* path for every Import node of in, at its position, and no Import node;
\* it holds the term of no file that in imports.
Resolved(in, out) ==
    /\ ~HasImport(out)
    /\ ResolvedSites(out) =
          {<<FileIdOf(site[1]), site[2]>> : site \in ImportSites(in)}
    /\ \A site \in ImportSites(in) : files[site[1]] \notin SubTerms(out)

LogCount(op, fid, res) ==
    Cardinality({i \in DOMAIN log :
        log[i].op = op /\ log[i].fid = fid /\ log[i].res = res})

InsertCount(fid) == LogCount("insert", fid, "")
PassCount(fid) == LogCount("pass", fid, "")
FromFileCount(fid) == LogCount("resolve", fid, "file")
FromCacheCount(fid) == LogCount("resolve", fid, "cache")

\* The resolver has answered 'from file' on the first resolve of a file
\* and 'from cache' on every later one.
NoFlips == \A i \in DOMAIN log : log[i].ans # "flip"

\* C2: with a resolver that answers 'from file' on the first resolve of a
\* file and 'from cache' on every later one, insert is called at most once
\* for a file identifier during a transform call, and the term inserted
\* for a file has a ResolvedImport node for each of the file's imports and
\* no Import node.
C2_InsertOncePerFile ==
    NoFlips =>
        \A fid \in FileIds :
            /\ InsertCount(fid) <= 1
            /\ InsertCount(fid) = 1 =>
                  /\ ~HasImport(cache[fid])
                  /\ \A site \in ImportSites(files[PathOf(fid)]) :
                        <<FileIdOf(site[1]), site[2]>>
                            \in ResolvedSites(cache[fid])

\* The diamond: the root imports f1 and f2, both import f3, all three
\* have been inserted and transform has returned Ok.
C2_Witness ==
    /\ Returned
    /\ ret.kind = "ok"
    /\ NoFlips
    /\ ImportFids(root) = {1, 2}
    /\ ImportFids(files["f1"]) = {3}
    /\ ImportFids(files["f2"]) = {3}
    /\ \A fid \in FileIds : InsertCount(fid) = 1
    /\ FromCacheCount(3) = 1

\* C5: the term of a pass that succeeded (of the root pass, and every
\* term passed to insert) has no Import node: each Import node of the input
\* is a ResolvedImport node with the resolver's identifier for its path,
\* whether the resolver answered 'from file' or 'from cache'; the term
\* transform returns has no Import node either.
C5_NoImportLeft ==
    /\ result.kind = "ok" => Resolved(root, result.t)
    /\ ret.kind = "ok" => Resolved(root, ret.t)
    /\ \A fid \in FileIds :
          InsertCount(fid) > 0 => Resolved(files[PathOf(fid)], cache[fid])

\* transform has returned Ok for a record whose two imports the sharing
\* rewrite moved into Let bindings, one answered 'from file' and one
\* 'from cache', and a file with an import answered 'from cache' has been
\* inserted.
C5_Witness ==
    /\ Returned
    /\ ret.kind = "ok"
    /\ root.k = "Record"
    /\ ret.t.k = "Let"
    /\ \E i, j \in DOMAIN log :
          /\ log[i].res = "file" /\ log[i].pos = SomePos(2)
          /\ log[j].res = "cache" /\ log[j].pos = SomePos(3)
    /\ \E fid \in FileIds :
          /\ InsertCount(fid) = 1
          /\ ResolvedSites(cache[fid]) # {}

RECURSIVE ImportClosure(_)
\* The files reached from the files R through imports.
ImportClosure(R) ==
    LET S == R \cup UNION {ImportFids(files[PathOf(f)]) : f \in R}
    IN  IF S = R THEN R ELSE ImportClosure(S)

\* The files transitively reachable through imports from the root.
Reachable == ImportClosure(ImportFids(root))

\* The files the resolver had cached before the call.
Seen0 == seen \ {fid \in FileIds : FromFileCount(fid) > 0}

\* C3: when transform returns Ok (the resolver answering 'from file' on
\* the first resolve of a file and 'from cache' later), the stack is empty
\* and every file reachable through imports from the root that was not
\* cached before the call has been answered 'from file' once, passed over
\* once and inserted once.
C3_FixpointOnOk ==
    (Returned /\ ret.kind = "ok" /\ NoFlips) =>
        /\ stack = <<>>
        /\ \A fid \in Reachable \ Seen0 :
              /\ FromFileCount(fid) = 1
              /\ PassCount(fid) = 1
              /\ InsertCount(fid) = 1

\* The resolver has answered 'from file' at most once per file.
FromFileOnce ==
    \A i \in DOMAIN log : ~(log[i].ans = "flip" /\ log[i].res = "file")

\* The iterations the while loop has left at most: one per file not yet
\* passed over, and the return.
Variant ==
    Cardinality({fid \in FileIds : PassCount(fid) = 0})
        + (IF pc = "drain" THEN 1 ELSE 0)

\* C4: with a resolver that answers 'from file' at most once per file,
\* transform terminates: in the while loop a step can always be taken,
\* every step (an iteration, or the return) brings the number of files not
\* yet passed over, plus one while the loop runs, down, and no file is
\* passed over twice.
C4_Terminates ==
    /\ [](FromFileOnce => \A fid \in FileIds : PassCount(fid) <= 1)
    /\ [][(pc = "drain" /\ FromFileOnce') =>
             (Variant' < Variant /\ Variant' >= 0)]_vars

\* transform has returned on an import cycle: f1 imports f2, f2 imports
\* f1, and both have been passed over.
C4_Witness ==
    /\ Returned
    /\ FromFileOnce
    /\ 1 \in ImportFids(root)
    /\ ImportFids(files["f1"]) = {2}
    /\ ImportFids(files["f2"]) = {1}
    /\ PassCount(1) = 1
    /\ PassCount(2) = 1

\* The identifiers handed out are pairwise distinct.
Distinct(ids) == \A i, j \in DOMAIN ids : i # j => ids[i] # ids[j]

\* C8: across the rewriter calls, closurize calls and transform calls of a
\* program, the identifiers the fresh-name source has handed out are
\* pairwise distinct and each begins with '%'; a step hands out one
\* identifier per advance of the counter, keeps the ones handed out before,
\* and never brings the counter down.
C8_FreshNames ==
    /\ [](Distinct(issued) /\ Len(issued) = counter)
    /\ [](\A i \in DOMAIN issued : Head(issued[i]) = "%")
    /\ [][/\ counter' >= counter
          /\ SubSeq(issued', 1, Len(issued)) = issued]_vars

\* The program has called the rewriter, closurize and transform (root pass
\* and a pass over a queued file), each of which took identifiers, and the
\* counter has gone past one decimal digit.
C8_Witness ==
    /\ pc = "idle"
    /\ ops >= 2
    /\ sOut # NoTerm /\ sOut # sIn
    /\ cOut # NoOut
    /\ ret.kind = "ok"
    /\ \E fid \in FileIds : PassCount(fid) = 1
    /\ counter > 10

(***************************************************************************)
(* Properties of transform: what is inserted, and in which order.          *)
(***************************************************************************)
\* The place in the log of the pass event that the entry at i belongs to.
PassOf(i) ==
    CHOOSE k \in 1..i :
        /\ log[k].op = "pass"
        /\ \A m \in (k + 1)..i : log[m].op # "pass"

\* The places in the log of the insert calls.
InsertEvents == {i \in DOMAIN log : log[i].op = "insert"}

\* The terms a full pass over t that succeeds may return from this state.
PassResults(t) ==
    LET st0 == PassState(seen, <<>>, <<>>, 0)
        rs == {transform_pass(t, st0, orc, ord, files) :
                 orc \in Oracles, ord \in PassOrdersFor(t)}
    IN  {r.t : r \in {x \in rs : x.ok}}

\* This step has called insert.
Inserting == Len(log') > Len(log) /\ log'[Len(log')].op = "insert"

\* C11: a pair on the stack is the term and the identifier of a 'from file'
\* answer; a step that calls insert(file_id, t) has popped the pair of
\* file_id, and t is the result of a full pass over the term of the pair
\* that succeeded, not that term when it has an import; in the log an
\* insert for a file comes after the pass over that file with only resolve
\* calls that did not fail in between, and before the pass over any file
\* that pass discovered.
C11_InsertsPassResult ==
    /\ [](\A i \in DOMAIN stack :
            stack[i].t = files[PathOf(stack[i].file_id)])
    /\ [](\A i \in InsertEvents :
            /\ log[PassOf(i)].fid = log[i].fid
            /\ \A j \in (PassOf(i) + 1)..(i - 1) :
                  /\ log[j].op = "resolve" /\ log[j].res # "err"
                  /\ log[j].res = "file" =>
                        \A k \in DOMAIN log :
                            (log[k].op = "pass" /\ log[k].fid = log[j].fid
                                /\ k > j) => k > i)
    /\ [][Inserting =>
            LET top == stack[Len(stack)]
                fid == log'[Len(log')].fid
            IN  /\ stack # <<>>
                /\ fid = top.file_id
                /\ cache'[fid] \in PassResults(top.t)
                /\ HasImport(top.t) => cache'[fid] # top.t
                /\ \A g \in FileIds \ {fid} : cache'[g] = cache[g]]_vars

\* f1, which imports f2, has been inserted, rewritten, before the pass over
\* f2, which the pass over f1 discovered.
C11_Witness ==
    /\ ImportFids(files["f1"]) = {2}
    /\ \E i \in InsertEvents :
          /\ log[i].fid = 1
          /\ \E j \in (PassOf(i) + 1)..(i - 1) :
                log[j].fid = 2 /\ log[j].res = "file"
          /\ \E k \in DOMAIN log :
                k > i /\ log[k].op = "pass" /\ log[k].fid = 2
    /\ cache[1] # files["f1"]
    /\ cache[1] # NoTerm

\* The places in the log of the pushes (the 'from file' answers) and of
\* the pops (the passes over a file).
Pushes == {i \in DOMAIN log : log[i].op = "resolve" /\ log[i].res = "file"}
Pops == {i \in DOMAIN log : log[i].op = "pass" /\ log[i].fid # RootId}

RECURSIVE Pending(_)
\* The files pushed and not popped after the first i entries of the log,
\* the one pushed last at the end; a pop takes the entry of its file that
\* was pushed last.
Pending(i) ==
    IF i = 0 THEN <<>>
    ELSE LET before == Pending(i - 1)
         IN  IF i \in Pushes THEN Append(before, log[i].fid)
             ELSE IF i \in Pops
             THEN LET at == {k \in DOMAIN before : before[k] = log[i].fid}
                      last == CHOOSE k \in at : \A m \in at : m <= k
                  IN  IF at = {} THEN before
                      ELSE SubSeq(before, 1, last - 1)
                           \o SubSeq(before, last + 1, Len(before))
             ELSE before

\* C12: every pass over a file is over the file pushed last among those
\* pending; so when F1 was pushed before F2, F1 still pending, and F1 is
\* passed over, then F2 (and likewise every file discovered since) has been
\* passed over and inserted before.
C12_LastDiscoveredFirst ==
    /\ \A i \in Pops :
          LET before == Pending(i - 1)
          IN  before # <<>> /\ before[Len(before)] = log[i].fid
    /\ NoFlips =>
          \A j1 \in Pushes, j2 \in Pushes, p1 \in Pops :
              (j1 < j2 /\ j2 < p1 /\ log[p1].fid = log[j1].fid) =>
                  \E p2 \in Pops, i2 \in InsertEvents :
                      /\ j2 < p2 /\ p2 < i2 /\ i2 < p1
                      /\ log[p2].fid = log[j2].fid
                      /\ log[i2].fid = log[j2].fid

\* The root pass pushed f1, then f2; the pass over f2 discovered f3; the
\* passes were over f2, f3 and f1, in that order.
C12_Witness ==
    /\ Returned
    /\ NoFlips
    /\ root.k = "List"
    /\ ImportFids(root) = {1, 2}
    /\ ImportFids(files["f2"]) = {3}
    /\ LET passes == SelectSeq(log, LAMBDA e : e.op = "pass")
      IN  [i \in DOMAIN passes |-> passes[i].fid] = <<RootId, 2, 3, 1>>

\* This step runs a pass: the root pass, or the pass of an iteration of the
\* while loop.
RootPassRuns == pc = "idle" /\ pc' = "drain"
QueuedPassRuns == pc = "drain" /\ stack # <<>> /\ log' # log
PassRuns == RootPassRuns \/ QueuedPassRuns

\* The term this step's pass is over, the stack the pass starts with and
\* the entries the step adds to the log.
PassedTerm == IF RootPassRuns THEN root' ELSE stack[Len(stack)].t
StackBefore ==
    IF RootPassRuns THEN <<>> ELSE SubSeq(stack, 1, Len(stack) - 1)
NewEvents ==
    IF RootPassRuns THEN log' ELSE SubSeq(log', Len(log) + 1, Len(log'))

\* C13: a pass pushes one pair for each resolve call that answers 'from
\* file', in the order of the calls, with the term and the identifier of the
\* answer, and pushes nothing else: nothing for an answer 'from cache', for
\* a resolve that fails, or for a node that is not an Import (resolve is
\* called from Import nodes of the term only).
C13_PushPerFromFile ==
    [][PassRuns =>
         LET fromFile == SelectSeq(NewEvents,
                 LAMBDA e : e.op = "resolve" /\ e.res = "file")
             resolves == SelectSeq(NewEvents, LAMBDA e : e.op = "resolve")
         IN  /\ stack' = StackBefore \o
                    [i \in DOMAIN fromFile |->
                        [t |-> files[PathOf(fromFile[i].fid)],
                         file_id |-> fromFile[i].fid]]
             /\ \A i \in DOMAIN resolves :
                    <<PathOf(resolves[i].fid), resolves[i].pos>>
                        \in ImportSites(PassedTerm)
             /\ Len(resolves) <= NumImports(PassedTerm)]_vars

\* The root pass has resolved the same file from two Import nodes, the
\* first answered 'from file' and the second 'from cache': one pair is on
\* the stack.
C13_Witness ==
    /\ pc = "drain"
    /\ Pops = {}
    /\ FromFileCount(1) = 1
    /\ FromCacheCount(1) = 1
    /\ Len(stack) = 1
    /\ stack[1].file_id = 1

\* This step is an iteration of the while loop whose pass fails.
QueuedPassFails == QueuedPassRuns /\ pc' = "idle"

\* transform has returned the error of a pass over a queued file.
QueuedPassFailed ==
    /\ Returned
    /\ ret.kind = "err"
    /\ log[Len(log)].res = "err"
    /\ PassOf(Len(log)) > 1

\* C14: the step in which the pass over a queued file fails returns the
\* error of the resolve call that failed, leaves the resolver's cache as it
\* was and calls no insert; once transform has returned that error, every
\* insert of the call was before the pass that failed (none for its file
\* after it, none for the files left on the stack) and the terms inserted
\* are in the cache.
C14_NoRollback ==
    /\ [][QueuedPassFails =>
            LET last == log'[Len(log')]
            IN  /\ last.op = "resolve" /\ last.res = "err"
                /\ ret' = ErrResult(ErrorOf(last))
                /\ cache' = cache
                /\ \A i \in DOMAIN NewEvents : NewEvents[i].op # "insert"]_vars
    /\ [](QueuedPassFailed =>
            \A i \in InsertEvents :
                /\ i < PassOf(Len(log))
                /\ cache[log[i].fid] # NoTerm
                /\ Resolved(files[PathOf(log[i].fid)], cache[log[i].fid]))

\* The root pass succeeded, a file has been inserted, and the pass over
\* another file has failed with a third file left on the stack.
C14_Witness ==
    /\ QueuedPassFailed
    /\ result.kind = "ok"
    /\ InsertEvents # {}
    /\ stack # <<>>
    /\ \A i \in DOMAIN stack :
          /\ InsertCount(stack[i].file_id) = 0
          /\ stack[i].file_id # log[PassOf(Len(log))].fid

\* The file pushed at the place j of the log has been popped, passed over
\* and inserted afterwards.
Drained(j) ==
    \E p \in Pops, i \in InsertEvents :
        /\ j < p /\ p < i
        /\ log[p].fid = log[j].fid
        /\ log[i].fid = log[j].fid

\* The pushes of the root pass.
RootPushes == {j \in Pushes : PassOf(j) = 1}

\* C15 as stated: when the root pass has failed and transform has returned,
\* every file the root pass pushed has been popped, passed over and
\* inserted, and the root pass's error is returned only if no queued pass
\* failed.
C15_AsStated ==
    (Returned /\ result.kind = "err") =>
        /\ \A j \in RootPushes : Drained(j)
        /\ ret = result => ~QueuedPassFailed

\* C15: when the root pass fails nothing is returned before the while loop
\* has ended; if no queued pass fails, the loop ends with the stack empty,
\* every file pushed (by the root pass or by a queued pass) has been popped,
\* passed over and inserted, and the root pass's error is returned; if a
\* queued pass fails, its error is returned in place of the root pass's.
C15_DrainsAfterRootFailure ==
    /\ pc = "drain" => ret = NoResult
    /\ (Returned /\ result.kind = "err") =>
          IF QueuedPassFailed
          THEN ret = ErrResult(ErrorOf(log[Len(log)])) /\ ret # result
          ELSE /\ ret = result
               /\ stack = <<>>
               /\ \A j \in Pushes : Drained(j)

\* The root pass pushed f1 and then failed; the loop passed over f1, which
\* imports f3, and over f3, inserted both, and transform returned the root
\* pass's error.
C15_Witness ==
    /\ Returned
    /\ result.kind = "err"
    /\ ret = result
    /\ ImportFids(files["f1"]) = {3}
    /\ \E j \in RootPushes : log[j].fid = 1
    /\ InsertCount(1) = 1
    /\ InsertCount(3) = 1

(***************************************************************************)
(* One step of each transformation on a node, as in the closure of         *)
(* transform_pass: the sharing rewriter, then the import rewriter on the   *)
(* node it returned.                                                       *)
(***************************************************************************)
StepInputs ==
    ImportInputs
    \cup {t \in ShareInputs : WellFormed(t) /\ Len(t.kids) <= 1}

\* import_resolution::transform_one is called on the node the sharing
\* rewriter returned, the resolver doing ans, and the pair to enqueue, if
\* there is one, is pushed on the stack.
ImportShared ==
    /\ pc = "shared"
    /\ \E ans \in Answers :
          LET st0 == PassState(seen, <<>>, log, 0)
              r == import_transform_one(sOut, st0, <<ans>>, files)
          IN  /\ iIn' = sOut
              /\ iOut' = ImportOut(r)
              /\ seen' = r.st.seen
              /\ log' = r.st.log
              /\ stack' = stack \o r.to_queue
    /\ pc' = "imported"
    /\ UNCHANGED <<iAgain, counter, issued, files, root, cache, result,
                   ret, calls, faults, shareVars, closVars, ops>>

InitStep ==
    /\ counter \in {0, 9}
    /\ issued = IssuedUpTo(counter)
    /\ pc = "share"
    /\ sIn \in StepInputs
    /\ sOrd = FieldUniverse
    /\ sOut = NoTerm
    /\ sC0 = counter
    /\ sAgain = FALSE
    /\ DriverIdle
    /\ ClosIdle
    /\ ops = 0
    /\ ImportIdle

NextStep == ShareFirst \/ ImportShared

SpecStep == InitStep /\ [][NextStep]_vars

(***************************************************************************)
(* Properties of the import rewriter.                                      *)
(***************************************************************************)
ImportDone == pc \in {"imported", "reimported"}

\* C16: called on an Import node the import rewriter has called resolve
\* once, with the path and the position of the node; called on a node of
\* another kind, ResolvedImport included, it has made no resolver call and
\* has returned the node unchanged with no pair to enqueue; called again on
\* the node it returned, it makes no resolver call, returns that node and
\* no pair.
C16_ResolveOncePerImport ==
    /\ ImportDone =>
          IF iIn.k = "Import"
          THEN /\ Len(log) = 1
               /\ log[1].op = "resolve"
               /\ log[1].fid = FileIdOf(iIn.s)
               /\ log[1].pos = iIn.pos
               /\ iOut.ok = (log[1].res # "err")
          ELSE /\ log = <<>>
               /\ stack = <<>>
               /\ iOut = [ok |-> TRUE, t |-> iIn, to_queue |-> <<>>,
                          err |-> NoError]
    /\ pc = "reimported" =>
          iAgain = [ok |-> TRUE, t |-> iOut.t, to_queue |-> <<>>,
                    err |-> NoError]

\* An Import node was resolved from file, and the rewriter has been called
\* again on the ResolvedImport node it returned.
C16_Witness ==
    /\ pc = "reimported"
    /\ iIn.k = "Import"
    /\ iOut.t.k = "ResolvedImport"
    /\ iOut.to_queue # <<>>
    /\ log[1].res = "file"

(***************************************************************************)
(* Properties of the sharing rewriter: nesting and positions.              *)
(***************************************************************************)
\* The places of the children of a record or list in the order the rewriter
\* processes them: a list from its first element on, a record as its hash
\* map yields the fields.
ProcessOrder(t, ord) ==
    IF t.k = "Record"
    THEN LET iter == IterOrder(t.names, ord)
         IN  [i \in DOMAIN iter |-> IndexOf(t.names, iter[i])]
    ELSE [i \in DOMAIN t.kids |-> i]

\* The children of t the rewriter extracts, in the order it processes them.
Extracted(t, ord) ==
    LET order == ProcessOrder(t, ord)
        kids == [i \in DOMAIN order |-> t.kids[order[i]]]
    IN  SelectSeq(kids, LAMBDA k : k.k \notin AtomicKinds)

\* A record or list with a child to extract has been rewritten.
SharedSeveral ==
    /\ pc = "shared"
    /\ sIn.k \in {"Record", "List"}
    /\ ToShare(sIn) # {}

\* C17 as stated: read from the outermost Let to the innermost, the bindings
\* are the extracted children in the order they were processed, and the
\* record or list is the body of the innermost Let.
C17_AsStated ==
    SharedSeveral =>
        LET ext == Extracted(sIn, sOrd)
            n == Len(ext)
        IN  /\ IsLetChain(sOut, n)
            /\ LetBindings(sOut, n) =
                  [j \in 1..n |-> [id |-> FreshIdent(sC0 + j - 1), t |-> ext[j]]]
            /\ LetBody(sOut, n).k = sIn.k

\* C17: read from the innermost Let to the outermost, the bindings are the
\* extracted children in the order they were processed (the first extracted
\* child is bound by the innermost Let, the last by the outermost), and the
\* record or list is the body of the innermost Let.
C17_LetNesting ==
    SharedSeveral =>
        LET ext == Extracted(sIn, sOrd)
            n == Len(ext)
        IN  /\ IsLetChain(sOut, n)
            /\ LetBindings(sOut, n) =
                  [j \in 1..n |->
                      [id |-> FreshIdent(sC0 + n - j), t |-> ext[n + 1 - j]]]
            /\ LetBody(sOut, n).k = sIn.k

\* A list of two different elements to extract has been rewritten.
C17_Witness ==
    /\ SharedSeveral
    /\ sIn.k = "List"
    /\ Len(Extracted(sIn, sOrd)) = 2
    /\ Extracted(sIn, sOrd)[1] # Extracted(sIn, sOrd)[2]
    /\ sOut.kids[1] = Extracted(sIn, sOrd)[2]

\* The n outermost Let nodes of t carry no position.
RECURSIVE LetsNoPos(_, _)
LetsNoPos(t, n) ==
    n = 0 \/ (t.pos = NoPos /\ LetsNoPos(t.kids[2], n - 1))

\* The import rewriter has returned a node with the position of its input:
\* a ResolvedImport node for an Import node, the node itself otherwise.
ImportKeepsPos ==
    (pc = "imported" /\ iOut.ok) =>
        /\ iOut.t.pos = iIn.pos
        /\ IF iIn.k = "Import" THEN iOut.t.k = "ResolvedImport"
           ELSE iOut.t = iIn

\* C18 as stated: the import rewriter returns a node with the position of
\* its input, and the node the sharing rewriter returns for a record, list
\* or wrapper carries the position of the input node.
C18_AsStated ==
    /\ ImportKeepsPos
    /\ (pc \in {"shared", "imported"} /\ sIn.k \in SharingKinds) =>
          sOut.pos = sIn.pos

\* C18: the import rewriter returns a node with the position of its input;
\* the sharing rewriter keeps the position of the input node on the record,
\* list or wrapper it rebuilds, which is the node it returns when no child
\* is extracted and the body of the innermost Let otherwise; the Let nodes
\* around it, the outermost of which is returned, carry no position; a node
\* of another kind is returned as it is.
C18_Positions ==
    /\ ImportKeepsPos
    /\ pc \in {"shared", "imported"} =>
          IF sIn.k \in SharingKinds
          THEN LET n == Cardinality(ToShare(sIn))
                   core == LetBody(sOut, n)
               IN  /\ IsLetChain(sOut, n)
                   /\ LetsNoPos(sOut, n)
                   /\ core.k = sIn.k
                   /\ core.pos = sIn.pos
          ELSE sOut = sIn

\* A list with a position and an Import element has gone through both
\* rewriters: the list in the Let has the position, the Let returned has
\* none, and the import rewriter has passed the Let through.
C18_Witness ==
    /\ pc = "imported"
    /\ sIn.k = "List"
    /\ sIn.pos # NoPos
    /\ sOut.k = "Let"
    /\ sOut.pos = NoPos
    /\ sOut.kids[1].k = "Import"
    /\ sOut.kids[2].pos = sIn.pos
    /\ iOut.ok
    /\ iOut.t = sOut

(***************************************************************************)
(* Properties of transform: what insert is called with.                    *)
(***************************************************************************)
\* The entries among the first k of the log that are op calls for fid with
\* the result res.
CountUpTo(k, op, fid, res) ==
    Cardinality({i \in 1..k :
        log[i].op = op /\ log[i].fid = fid /\ log[i].res = res})

\* C19: whatever the resolver does, at every point of a transform call
\* every insert call has the file identifier of an earlier 'from file'
\* answer of the call, the insert calls for an identifier are never more
\* than the 'from file' answers for it, and the root term is not inserted:
\* no insert is for the root pass, and no term in the resolver's cache is
\* the root term or the result of the root pass.
C19_InsertOnlyFromFile ==
    /\ \A k \in DOMAIN log :
          /\ log[k].op = "insert" => log[k].fid \in FileIds
          /\ \A fid \in FileIds :
                CountUpTo(k, "insert", fid, "")
                    <= CountUpTo(k - 1, "resolve", fid, "file")
    /\ root # NoTerm =>
          \A fid \in FileIds :
              /\ cache[fid] # root
              /\ result.kind = "ok" => cache[fid] # result.t

\* A resolver answered 'from file' twice for f1, which was passed over and
\* inserted twice.
C19_Witness ==
    /\ Returned
    /\ FromFileCount(1) = 2
    /\ InsertCount(1) = 2
    /\ ~NoFlips

====
